---- MODULE Spec2Model ----
(***************************************************************************)
(* A model of src/adsbdecoder.py: the BeastDF capture session              *)
(* (handle_messages, _handle_position_message, get_statistics) and the     *)
(* __main__ script around it (capture timeout, statistics report, flatten, *)
(* quantize, partition, write).                                            *)
(*                                                                         *)
(* The pyModeS library is external.  A message is modelled by what the     *)
(* library's pure functions return for it: its hex length, checksum        *)
(* residual, downlink format, transponder id, typecode, even/odd flag and  *)
(* the outcome of every field decoder.  The two-message position decoders  *)
(* depend on a pair of messages, so their outcome is chosen per call.      *)
(***************************************************************************)
EXTENDS Integers, Sequences, FiniteSets, TLC

(***************************************************************************)
(* Bounds of the model.                                                    *)
(***************************************************************************)
MaxFrames == 2

(***************************************************************************)
(* Program constants.                                                      *)
(***************************************************************************)
HexLen == 28
StaleWindow == 10
TcPosLo == 5
TcPosHi == 22
TcSurfaceHi == 8

(***************************************************************************)
(* Python values.  An item is None or a typed payload; a record value is   *)
(* a scalar item or a tuple of items.                                      *)
(***************************************************************************)
\* floats are counted in units of 0.00001, one digit below the finest
\* rounding rule; Python ints that no rule touches are kept as they are
Unit == 100000
NoneV == [null |-> TRUE]
Val(t, x) == [null |-> FALSE, t |-> t, v |-> x]
Num(x) == Val("num", x)
Str(x) == Val("str", x)
Scalar(it) == [tuple |-> FALSE, items |-> <<it>>]
Tuple(its) == [tuple |-> TRUE, items |-> its]

\* val is None
IsNone(val) == ~val.tuple /\ val.items[1].null
\* val == (None, None)
IsNonePair(val) ==
    /\ val.tuple
    /\ Len(val.items) = 2
    /\ val.items[1].null
    /\ val.items[2].null
\* Python truthiness of an optional number (None and 0 are falsy)
Truthy(it) == ~it.null /\ it.v # 0

\* rec[k] = v
Put(rec, k, v) == [x \in DOMAIN rec \cup {k} |-> IF x = k THEN v ELSE rec[x]]

(***************************************************************************)
(* The external decoder library, seen through a message.                   *)
(***************************************************************************)
\* pms.icao(msg) found no transponder id
NoIcao == ""
\* representative entries of the three dispatch tables
ADSB_FUNCS == <<"altitude", "speed_heading">>
BDS_FLAGS == <<"bds44">>
COMMB_FUNCS == <<"wind44", "temp44">>
\* every decode call made inside a try block
Guarded == {"altitude", "speed_heading", "infer", "is44", "wind44", "temp44",
            "altcode", "ca"}
Outcomes == {"raise", "none", "nonepair", "value"}
Nominal == [f \in Guarded |-> "value"]

\* what a decoder returns when it succeeds with data
DecValue(f) ==
    CASE f = "altitude"      -> Scalar(Num(101230000))
      [] f = "speed_heading" -> Tuple(<<Num(43127000), Num(8734000)>>)
      [] f = "infer"         -> Scalar(Str("BDS44"))
      [] f = "is44"          -> Scalar(Val("bool", TRUE))
      [] f = "wind44"        -> Tuple(<<Num(2200000), Num(27068000)>>)
      [] f = "temp44"        -> Tuple(<<Num(-4826000)>>)
      [] f = "altcode"       -> Scalar(Num(801200000))
      [] f = "ca"            -> Scalar(Num(500))

\* func(msg) inside a try block: raises, or returns None, (None, None) or a
\* value; intr is the call during which the alarm handler raised, if any
Call(msg, f, intr) ==
    CASE f = intr                -> [raised |-> TRUE]
      [] msg.dec[f] = "raise"    -> [raised |-> TRUE]
      [] msg.dec[f] = "none"     -> [raised |-> FALSE, val |-> Scalar(NoneV)]
      [] msg.dec[f] = "nonepair" -> [raised |-> FALSE, val |-> Tuple(<<NoneV, NoneV>>)]
      [] msg.dec[f] = "value"    -> [raised |-> FALSE, val |-> DecValue(f)]

MkMsg(hexlen, crc, df, icao, tc, oe, raises, dec) ==
    [hexlen |-> hexlen, crc |-> crc, df |-> df, icao |-> icao, tc |-> tc,
     oe |-> oe, raises |-> raises, dec |-> dec]

(***************************************************************************)
(* Session state.                                                          *)
(***************************************************************************)
VARIABLES
    phase,           \* where __main__ is: capturing, stopped, reported, done, failed
    alarm,           \* the SIGALRM timer: armed, fired, swallowed, cancelled
    records,         \* BeastDF.records
    position_cache,  \* BeastDF.position_cache
    msg_counts,      \* BeastDF.msg_counts
    ref_lat,         \* BeastDF.ref_lat
    ref_lon,         \* BeastDF.ref_lon
    stats,           \* the mapping object get_statistics last returned
    flat_records,    \* the flattened records of line 394
    data_df,         \* the dataset of lines 395-402
    core_df,         \* rows written to adsb_core.parquet
    derived_df,      \* rows written to adsb_derived.parquet
    tally,           \* history: frames handed to handle_messages, by kind
    last             \* the frame handled last and what became of it

vars == <<phase, alarm, records, position_cache, msg_counts, ref_lat, ref_lon,
          stats, flat_records, data_df,
                   core_df, derived_df, tally, last>>

Empty == [k \in {} |-> 0]

\* faulty variant: a label is counted only the first time it is seen
Inc_Once(counts, key) ==
    [k \in DOMAIN counts \cup {key} |-> IF k \in DOMAIN counts THEN counts[k] ELSE 1]
\* self.msg_counts[key] += 1 on a defaultdict(int)
Inc(counts, key) ==
    IF key \in DOMAIN counts
    THEN [counts EXCEPT ![key] = @ + 1]
    ELSE [k \in DOMAIN counts \cup {key} |-> IF k = key THEN 1 ELSE counts[k]]

(***************************************************************************)
(* handle_messages: one iteration of its loop, as the ordered list of the  *)
(* writes it makes to the session.                                         *)
(***************************************************************************)
Count(key) == [op |-> "count", key |-> key]
Store(icao, parity, slot) ==
    [op |-> "cache", icao |-> icao, parity |-> parity, slot |-> slot]
Emit(rec) == [op |-> "append", rec |-> rec]

\* faulty variant: the length is not checked
LengthOk_Any(msg) == TRUE
\* line 211: len(msg) != 28 drops the frame
LengthOk(msg) == msg.hexlen = HexLen
\* faulty variant: the checksum is not checked
CrcOk_Skipped(msg) == TRUE
\* line 215: pms.crc(msg) != 0 drops the frame
CrcOk(msg) == msg.crc = 0
\* faulty variant: a frame without a transponder id is kept
HasIcao_Any(msg) == TRUE
\* line 222: `not icao` drops the frame
HasIcao(msg) == msg.icao # NoIcao
\* faulty variant: every position frame is stored in the even slot
Parity_AlwaysEven(oe) == "even"
\* lines 316-319: the slot an even/odd flag selects
Parity(oe) == IF oe = 0 THEN "even" ELSE "odd"
\* faulty variant: the age of the pair is not tested
Fresh_Always(even_ts, odd_ts) == TRUE
\* faulty variant: a gap of exactly the window still counts as fresh
Fresh_Inclusive(even_ts, odd_ts) ==
    (IF even_ts >= odd_ts THEN even_ts - odd_ts ELSE odd_ts - even_ts) <= StaleWindow
\* line 327: abs(even_ts - odd_ts) < 10
Fresh(even_ts, odd_ts) ==
    (IF even_ts >= odd_ts THEN even_ts - odd_ts ELSE odd_ts - even_ts) < StaleWindow
\* line 247: val is not None and val != (None, None)
KeepAdsb(val) == ~IsNone(val) /\ ~IsNonePair(val)
\* line 282: val is not None
KeepCommb(val) == ~IsNone(val)

\* faulty variant: a slot is kept when it holds a newer timestamp
CacheStore_KeepNewest(cache, icao, parity, slot) ==
    LET entry == IF icao \in DOMAIN cache THEN cache[icao] ELSE Empty
        keep == parity \in DOMAIN entry /\ entry[parity][2] > slot[2]
    IN  IF keep THEN cache ELSE Put(cache, icao, Put(entry, parity, slot))
\* faulty variant: the entry of the id is started afresh on every frame
CacheStore_Reset(cache, icao, parity, slot) ==
    Put(cache, icao, Put(Empty, parity, slot))
\* lines 312-319 of _handle_position_message
CacheStore(cache, icao, parity, slot) ==
    LET entry == IF icao \in DOMAIN cache THEN cache[icao] ELSE Empty
        entry1 == Put(entry, parity, slot)
    IN  Put(cache, icao, entry1)

\* lines 228-235
BaseRecord(msg, ts) ==
    [timestamp    |-> Scalar(Num(ts * Unit)),
     datetime_utc |-> Scalar(Val("datetime", ts)),
     msg          |-> Scalar(Str(msg)),
     msg_hash     |-> Scalar(Str(<<"blake2s", msg>>)),
     df           |-> Scalar(Num(msg.df)),
     icao         |-> Scalar(Str(msg.icao))]

BaseKeys == {"timestamp", "datetime_utc", "msg", "msg_hash", "df", "icao"}

\* the decode loops at lines 244-250 (filterPair) and 279-285 (no pair filter)
RECURSIVE DecodeLoop(_, _, _, _, _)
DecodeLoop(rec, msg, funcs, filterPair, intr) ==
    IF funcs = <<>> THEN rec
    ELSE LET f == Head(funcs)
             out == Call(msg, f, intr)
             keep == /\ ~out.raised
                     /\ IF filterPair THEN KeepAdsb(out.val)
                        ELSE KeepCommb(out.val)
             rec1 == IF keep THEN Put(rec, f, out.val) ELSE rec
         IN  DecodeLoop(rec1, msg, Tail(funcs), filterPair, intr)

\* fn_name = f'is{bds_name[3:]}'
FlagName(bds_name) == CASE bds_name = "bds44" -> "is44"

\* the flag loop at lines 269-276
RECURSIVE FlagLoop(_, _, _, _)
FlagLoop(rec, msg, flags, intr) ==
    IF flags = <<>> THEN rec
    ELSE LET fn == FlagName(Head(flags))
             out == Call(msg, fn, intr)
             rec1 == IF out.raised THEN rec ELSE Put(rec, fn, out.val)
         IN  FlagLoop(rec1, msg, Tail(flags), intr)

PosFields(rec, kind) ==
    Put(Put(Put(rec, "latitude", Scalar(Num(4046014))),
                     "longitude", Scalar(Num(-10956579))),
                     "position_type", Scalar(Str(kind)))

\* faulty variant: every typecode from 5 up is a position typecode
IsPositionTc_Open(tc) == tc >= TcPosLo
\* lines 253 and 305: tc in range(5, 23)
IsPositionTc(tc) == tc >= TcPosLo /\ tc <= TcPosHi

\* the position keys written when the alarm handler raises inside the try
\* block right after the assignment of key upto (lines 337-338, 344-345,
\* 353-354)
PosFieldsUpTo(rec, upto) ==
    IF upto = "latitude"
    THEN Put(rec, "latitude", Scalar(Num(4046014)))
    ELSE Put(Put(rec, "latitude", Scalar(Num(4046014))),
                      "longitude", Scalar(Num(-10956579)))

\* the places inside the try blocks of lines 329-358 where the alarm
\* handler can raise: during a decoder call or after an assignment
PrimaryCuts == [position_latitude |-> "latitude", position_longitude |-> "longitude"]
FallbackCuts == [with_ref_latitude |-> "latitude", with_ref_longitude |-> "longitude"]

\* _handle_position_message (lines 303-358); pos is the outcome of the
\* external position decoders for this call, intr the place where the
\* alarm handler raised, if any
handle_position_message(msg, ts, icao, tc, rec, pos, cache, rlat, rlon, intr) ==
    IF ~IsPositionTc(tc)
    THEN [raised |-> FALSE, stored |-> FALSE, rec |-> rec, call |-> "none",
          fallback |-> FALSE, got |-> "none", points |-> {}]
    ELSE IF msg.raises = "oe_flag"
    THEN [raised |-> TRUE, stored |-> FALSE, rec |-> rec, call |-> "none",
          fallback |-> FALSE, got |-> "none", points |-> {}]
    ELSE
    LET rec1 == Put(rec, "oe_flag", Scalar(Num(msg.oe)))
        parity == Parity(msg.oe)
        cache1 == CacheStore(cache, icao, parity, <<msg, ts>>)
        entry == cache1[icao]
        both == "even" \in DOMAIN entry /\ "odd" \in DOMAIN entry
        even_ts == entry["even"][2]
        odd_ts == entry["odd"][2]
        hasRef == Truthy(rlat) /\ Truthy(rlon)
        primary == IF tc >= TcPosLo /\ tc <= TcSurfaceHi
                   THEN (IF hasRef THEN "surface" ELSE "none")
                   ELSE "airborne"
        out == [raised |-> FALSE, stored |-> TRUE, parity |-> parity,
                rec |-> rec1, call |-> "none", fallback |-> FALSE,
                got |-> "none", points |-> {}]
        \* lines 332-346: the primary decode and its three assignments
        primOk == pos.primary = "ok" /\ intr # "position"
        cut1 == primOk /\ intr \in DOMAIN PrimaryCuts
        rec2 == IF ~primOk THEN rec1
                ELSE IF cut1 THEN PosFieldsUpTo(rec1, PrimaryCuts[intr])
                ELSE PosFields(rec1, primary)
        \* lines 350-355: the fallback decode and its three assignments
        refOk == pos.with_ref = "ok" /\ intr # "with_ref"
        cut2 == refOk /\ intr \in DOMAIN FallbackCuts
        rec3 == IF ~refOk THEN rec2
                ELSE IF cut2 THEN PosFieldsUpTo(rec2, FallbackCuts[intr])
                ELSE PosFields(rec2, "with_ref")
        points == {"position"}
                  \cup (IF pos.primary = "ok" THEN DOMAIN PrimaryCuts
                        ELSE IF ~hasRef THEN {}
                        ELSE IF pos.with_ref = "ok"
                             THEN {"with_ref"} \cup DOMAIN FallbackCuts
                        ELSE {"with_ref"})
        tried == [out EXCEPT !.call = primary, !.points = points]
    IN  IF ~both THEN out
        ELSE IF ~Fresh(even_ts, odd_ts) THEN out
        ELSE IF primary = "none" THEN out
        ELSE IF primOk /\ ~cut1
             THEN [tried EXCEPT !.rec = rec2, !.got = "primary"]
        ELSE IF ~hasRef
             THEN [tried EXCEPT !.rec = rec2,
                                !.got = IF cut1 THEN "partial" ELSE "none"]
        ELSE IF refOk /\ ~cut2
             THEN [tried EXCEPT !.rec = rec3, !.fallback = TRUE,
                                !.got = "with_ref"]
        ELSE [tried EXCEPT !.rec = rec3, !.fallback = TRUE,
                           !.got = IF cut1 \/ cut2 THEN "partial" ELSE "none"]

DfKey(df) == "df" \o ToString(df)
TcKey(tc) == "tc" \o ToString(tc)
BdsKey(code) == "bds" \o code

\* lines 203-301, one frame
handle_message(msg, ts, pos, cache, rlat, rlon, intr) ==
    LET NoPos == [call |-> "none", fallback |-> FALSE, got |-> "none"]
        drop(effs, fate) ==
            [effs |-> effs, raised |-> FALSE, fate |-> fate, calls |-> {},
             pos |-> NoPos]
        done(effs, calls) ==
            [effs |-> effs, raised |-> FALSE, fate |-> "appended",
             calls |-> calls, pos |-> NoPos]
        fail(effs, calls) ==
            [effs |-> effs, raised |-> TRUE, fate |-> "raised",
             calls |-> calls, pos |-> NoPos]
        c1 == Count(DfKey(msg.df))
        rec0 == BaseRecord(msg, ts)
    IN
    IF ~LengthOk(msg) THEN drop(<<>>, "bad_length")
    ELSE IF ~CrcOk(msg) THEN drop(<<Count("crc_fail")>>, "crc_fail")
    ELSE IF ~HasIcao(msg) THEN drop(<<>>, "no_icao")
    ELSE IF msg.df \in {17, 18} THEN
        IF msg.raises = "typecode" THEN fail(<<c1>>, {})
        ELSE
        LET tc == msg.tc
            rec1 == Put(rec0, "typecode", Scalar(Num(tc)))
            c2 == Count(TcKey(tc))
            rec2 == DecodeLoop(rec1, msg, ADSB_FUNCS, TRUE, intr)
            p == handle_position_message(msg, ts, msg.icao, tc, rec2, pos,
                                         cache, rlat, rlon, intr)
            loop == {ADSB_FUNCS[i] : i \in DOMAIN ADSB_FUNCS}
            calls == loop \cup p.points
            pinfo == [call |-> p.call, fallback |-> p.fallback, got |-> p.got]
        IN  IF p.raised THEN fail(<<c1, c2>>, loop)
            ELSE IF p.stored
            THEN [done(<<c1, c2, Store(msg.icao, p.parity, <<msg, ts>>),
                         Emit(p.rec)>>, calls) EXCEPT !.pos = pinfo]
            ELSE done(<<c1, c2, Emit(p.rec)>>, calls)
    ELSE IF msg.df \in {20, 21} THEN
        LET inf == Call(msg, "infer", intr)
            rec1 == IF inf.raised THEN Put(rec0, "bds", Scalar(NoneV))
                    ELSE Put(rec0, "bds", inf.val)
            counted == ~inf.raised /\ ~IsNone(inf.val)
            rec2 == FlagLoop(rec1, msg, BDS_FLAGS, intr)
            rec3 == DecodeLoop(rec2, msg, COMMB_FUNCS, FALSE, intr)
            calls == {"infer"}
                     \cup {FlagName(BDS_FLAGS[i]) : i \in DOMAIN BDS_FLAGS}
                     \cup {COMMB_FUNCS[i] : i \in DOMAIN COMMB_FUNCS}
        IN  IF counted
            THEN done(<<c1, Count(BdsKey(inf.val.items[1].v)), Emit(rec3)>>,
                      calls)
            ELSE done(<<c1, Emit(rec3)>>, calls)
    ELSE IF msg.df \in {4, 5} THEN
        LET out == Call(msg, "altcode", intr)
            rec1 == IF out.raised THEN rec0 ELSE Put(rec0, "altitude", out.val)
        IN  done(<<c1, Emit(rec1)>>, {"altcode"})
    ELSE IF msg.df = 11 THEN
        LET out == Call(msg, "ca", intr)
            rec1 == IF out.raised THEN rec0 ELSE Put(rec0, "capability", out.val)
        IN  done(<<c1, Emit(rec1)>>, {"ca"})
    ELSE done(<<c1, Emit(rec0)>>, {})

\* one write applied to (msg_counts, position_cache, records)
ApplyEff(s, e) ==
    CASE e.op = "count"  -> [s EXCEPT !.counts = Inc(@, e.key)]
      [] e.op = "cache"  -> [s EXCEPT !.cache = CacheStore(@, e.icao, e.parity, e.slot)]
      [] e.op = "append" -> [s EXCEPT !.records = Append(@, e.rec)]

\* the first n writes of effs, in order
RECURSIVE ApplyEffs(_, _, _)
ApplyEffs(s, effs, n) ==
    IF n = 0 \/ effs = <<>> THEN s
    ELSE ApplyEffs(ApplyEff(s, Head(effs)), Tail(effs), n - 1)

(***************************************************************************)
(* _flatten_record.  A record is read in insertion order, as the sequence  *)
(* of its (key, value) items; the result is the flat dict, again in        *)
(* insertion order.                                                        *)
(***************************************************************************)
TUPLE_FIELD_MAP ==
    [velocity          |-> <<"velocity_gs", "velocity_track", "velocity_vr", "velocity_type">>,
     speed_heading     |-> <<"spdhdg_speed", "spdhdg_heading">>,
     airborne_velocity |-> <<"airborne_speed", "airborne_heading", "airborne_vr", "airborne_type">>,
     selected_altitude |-> <<"selected_altitude_ft", "selected_altitude_src">>,
     wind44            |-> <<"wind44_speed", "wind44_dir">>,
     temp44            |-> <<"temp44_c">>,
     p44               |-> <<"p44_hpa">>,
     hum44             |-> <<"hum44_pct">>,
     temp45            |-> <<"temp45_c">>,
     p45               |-> <<"p45_hpa">>,
     rh45              |-> <<"rh45_pct">>]

\* the order in which handle_messages inserts keys into a record
KeyOrder ==
    <<"timestamp", "datetime_utc", "msg", "msg_hash", "df", "icao", "typecode",
      "altitude", "speed_heading", "oe_flag", "latitude", "longitude",
      "position_type", "bds", "is44", "wind44", "temp44", "capability">>

\* rec.items()
RECURSIVE ItemsFrom(_, _)
ItemsFrom(rec, keys) ==
    IF keys = <<>> THEN <<>>
    ELSE IF Head(keys) \in DOMAIN rec
         THEN <<<<Head(keys), rec[Head(keys)]>>>> \o ItemsFrom(rec, Tail(keys))
         ELSE ItemsFrom(rec, Tail(keys))
Items(rec) == ItemsFrom(rec, KeyOrder)

\* flat[name] = item on a dict kept as a sequence of (name, item)
DictSet(flat, name, item) ==
    IF \E i \in DOMAIN flat : flat[i][1] = name
    THEN [i \in DOMAIN flat |-> IF flat[i][1] = name THEN <<name, item>> ELSE flat[i]]
    ELSE Append(flat, <<name, item>>)

\* f"{key}_{idx}"
Positional(key, idx) == key \o "_" \o ToString(idx)

\* lines 157-167: element idx (0-based) of a tuple value goes to names[idx]
\* when the name table has one, else to {key}_{idx}
\* faulty variant: elements beyond the name table are dropped
RECURSIVE FlattenTuple_NamedOnly(_, _, _, _, _)
FlattenTuple_NamedOnly(flat, key, val, names, idx) ==
    IF idx >= Len(val) \/ (names # <<>> /\ idx >= Len(names)) THEN flat
    ELSE LET name == IF idx < Len(names) THEN names[idx + 1]
                     ELSE Positional(key, idx)
         IN  FlattenTuple_NamedOnly(DictSet(flat, name, val[idx + 1]), key, val,
                                    names, idx + 1)
RECURSIVE FlattenTuple(_, _, _, _, _)
FlattenTuple(flat, key, val, names, idx) ==
    IF idx >= Len(val) THEN flat
    ELSE LET name == IF idx < Len(names) THEN names[idx + 1]
                     ELSE Positional(key, idx)
         IN  FlattenTuple(DictSet(flat, name, val[idx + 1]), key, val, names,
                          idx + 1)

RECURSIVE FlattenItems(_, _)
FlattenItems(flat, items) ==
    IF items = <<>> THEN flat
    ELSE LET key == Head(items)[1]
             val == Head(items)[2]
             names == IF key \in DOMAIN TUPLE_FIELD_MAP
                      THEN TUPLE_FIELD_MAP[key] ELSE <<>>
             flat1 == IF val.tuple
                      THEN FlattenTuple(flat, key, val.items, names, 0)
                      ELSE DictSet(flat, key, val.items[1])
         IN  FlattenItems(flat1, Tail(items))

flatten_record(items) == FlattenItems(<<>>, items)

(***************************************************************************)
(* pl.DataFrame(records): columns in order of first appearance, one row    *)
(* per record, a missing field is null.                                    *)
(***************************************************************************)
RECURSIVE ColumnsOf(_, _)
ColumnsOf(cols, flats) ==
    IF flats = <<>> THEN cols
    ELSE LET names == [i \in DOMAIN Head(flats) |-> Head(flats)[i][1]]
             fresh == SelectSeq(names, LAMBDA n : \A j \in DOMAIN cols : cols[j] # n)
         IN  ColumnsOf(cols \o fresh, Tail(flats))

RowOf(flat, cols) ==
    [c \in {cols[i] : i \in DOMAIN cols} |->
        IF \E i \in DOMAIN flat : flat[i][1] = c
        THEN flat[CHOOSE i \in DOMAIN flat : flat[i][1] = c][2]
        ELSE NoneV]

DataFrame(flats) ==
    LET cols == ColumnsOf(<<>>, flats)
    IN  [cols |-> cols, rows |-> [i \in DOMAIN flats |-> RowOf(flats[i], cols)]]

Select(df, cols) ==
    [cols |-> cols,
     rows |-> [i \in DOMAIN df.rows |->
                 [c \in {cols[j] : j \in DOMAIN cols} |-> df.rows[i][c]]]]

HasCol(df, c) == \E i \in DOMAIN df.cols : df.cols[i] = c

(***************************************************************************)
(* _apply_quantization.                                                    *)
(***************************************************************************)

STEP_QUANTIZATION ==
    << <<{"altitude", "selected_altitude_ft", "altitude_diff"}, 25>>,
       <<{"vr", "vertical_rate"}, 10>> >>

DECIMAL_QUANTIZATION ==
    << <<{"latitude", "longitude"}, 4>>,
       <<{"heading", "track", "dir"}, 1>>,
       <<{"speed", "gs", "tas", "ias"}, 1>>,
       <<{"roll"}, 1>>,
       <<{"mach"}, 3>>,
       <<{"temp"}, 1>>,
       <<{"pressure", "p44_hpa", "p45_hpa", "baro_pressure_setting"}, 1>>,
       <<{"hum", "rh"}, 0>> >>

\* Python's `sub in col` for the rule substrings, tabulated over the
\* column names a dataset of this model can have: col |-> {sub : sub in col}
SubstringsIn(col) ==
    CASE col \in {"altitude", "altitude_hold_mode", "selected_altitude",
                  "selected_altitude_src", "selected_altitude_0",
                  "selected_altitude_1"} -> {"altitude"}
      [] col = "altitude_diff" -> {"altitude", "altitude_diff"}
      [] col = "selected_altitude_ft" -> {"altitude", "selected_altitude_ft"}
      [] col \in {"velocity_vr", "airborne_vr", "vr60_baro", "vr60_ins"} -> {"vr"}
      [] col \in {"latitude"} -> {"latitude"}
      [] col \in {"longitude"} -> {"longitude"}
      [] col \in {"spdhdg_heading", "airborne_heading", "selected_heading"} -> {"heading"}
      [] col \in {"speed_heading", "speed_heading_0", "speed_heading_1",
                  "speed_heading_2"} -> {"heading", "speed"}
      [] col = "velocity_track" -> {"track"}
      [] col = "wind44_dir" -> {"dir"}
      [] col \in {"spdhdg_speed", "airborne_speed", "wind44_speed"} -> {"speed"}
      [] col \in {"velocity_gs", "gs50"} -> {"gs"}
      [] col = "tas50" -> {"tas"}
      [] col = "ias60" -> {"ias"}
      [] col = "roll50" -> {"roll"}
      [] col = "mach60" -> {"mach"}
      [] col \in {"temp44", "temp44_c", "temp44_0", "temp44_1", "temp44_2",
                  "temp45", "temp45_c", "temp45_0", "temp45_1"} -> {"temp"}
      [] col = "baro_pressure_setting" -> {"baro_pressure_setting", "pressure"}
      [] col = "p44_hpa" -> {"p44_hpa"}
      [] col = "p45_hpa" -> {"p45_hpa"}
      [] col \in {"hum44", "hum44_pct", "hum44_0", "hum44_1"} -> {"hum"}
      [] col \in {"rh45", "rh45_pct", "rh45_0", "rh45_1"} -> {"rh"}
      [] OTHER -> {}

\* the first rule of a table with a substring in col, or 0 when none has
RECURSIVE FirstMatch(_, _, _)
FirstMatch(rules, col, i) ==
    IF i > Len(rules) THEN 0
    ELSE IF rules[i][1] \cap SubstringsIn(col) # {} THEN i
    ELSE FirstMatch(rules, col, i + 1)

\* x rounded to the nearest multiple of grid, halves away from zero
RoundTo(x, grid) ==
    IF x >= 0 THEN ((2 * x + grid) \div (2 * grid)) * grid
    ELSE -(((2 * (-x) + grid) \div (2 * grid)) * grid)

\* the grid of round(decimals)
DecimalGrid(decimals) == Unit \div (10 ^ decimals)

\* pl.datatypes.is_numeric(dtype): the column holds numbers
IsNumeric(df, col) ==
    /\ \E i \in DOMAIN df.rows : ~df.rows[i][col].null
    /\ \A i \in DOMAIN df.rows :
          ~df.rows[i][col].null => df.rows[i][col].t = "num"

\* faulty variant: a step rule divides by the step and does not multiply back
QuantizeItem_NoScaleBack(col, it) ==
    LET s == FirstMatch(STEP_QUANTIZATION, col, 1)
        d == FirstMatch(DECIMAL_QUANTIZATION, col, 1)
    IN  IF it.null THEN it
        ELSE IF s # 0
             THEN Num(RoundTo(it.v, STEP_QUANTIZATION[s][2] * Unit)
                      \div STEP_QUANTIZATION[s][2])
        ELSE IF d # 0
             THEN Num(RoundTo(it.v, DecimalGrid(DECIMAL_QUANTIZATION[d][2])))
        ELSE it
\* faulty variant: a missing value of a quantized column becomes 0
QuantizeItem_FillNull(col, it) ==
    LET s == FirstMatch(STEP_QUANTIZATION, col, 1)
        d == FirstMatch(DECIMAL_QUANTIZATION, col, 1)
    IN  IF s = 0 /\ d = 0 THEN it
        ELSE IF it.null THEN Num(0)
        ELSE IF s # 0
             THEN Num(RoundTo(it.v, STEP_QUANTIZATION[s][2] * Unit))
        ELSE Num(RoundTo(it.v, DecimalGrid(DECIMAL_QUANTIZATION[d][2])))
\* the expression lines 178-188 build for one numeric column
QuantizeItem(col, it) ==
    LET s == FirstMatch(STEP_QUANTIZATION, col, 1)
        d == FirstMatch(DECIMAL_QUANTIZATION, col, 1)
    IN  IF it.null THEN it
        ELSE IF s # 0
             THEN Num(RoundTo(it.v, STEP_QUANTIZATION[s][2] * Unit))
        ELSE IF d # 0
             THEN Num(RoundTo(it.v, DecimalGrid(DECIMAL_QUANTIZATION[d][2])))
        ELSE it

apply_quantization(df) ==
    [cols |-> df.cols,
     rows |-> [i \in DOMAIN df.rows |->
                 [c \in DOMAIN df.rows[i] |->
                     IF IsNumeric(df, c) THEN QuantizeItem(c, df.rows[i][c])
                     ELSE df.rows[i][c]]]]

(***************************************************************************)
(* __main__, lines 394-439: build the dataset, sort, quantize, partition.  *)
(***************************************************************************)
CORE_COLS ==
    <<"timestamp", "datetime_utc", "icao", "df", "typecode", "msg_hash",
      "latitude", "longitude", "position_type", "altitude",
      "selected_altitude_ft", "velocity_gs", "velocity_track", "velocity_vr",
      "velocity_type", "airborne_speed", "airborne_heading", "airborne_vr",
      "airborne_type", "spdhdg_speed", "spdhdg_heading",
      "baro_pressure_setting", "callsign", "category">>

KEY_COLS == <<"timestamp", "datetime_utc", "icao", "msg_hash">>

\* [c for c in names if c in data_df.columns]
Present(names, df) == SelectSeq(names, LAMBDA c : HasCol(df, c))

\* line 433
core_table(df) ==
    LET core_cols == Present(CORE_COLS, df)
    IN  IF core_cols # <<>> THEN Select(df, core_cols) ELSE df

\* faulty variant: the join keys are left out of the derived table
derived_table_NoKeys(df) ==
    LET core_cols == Present(CORE_COLS, df)
    IN  Select(df, SelectSeq(df.cols,
                   LAMBDA c : \A i \in DOMAIN core_cols : core_cols[i] # c))
\* faulty variant: the derived table takes every column that is not a key
derived_table_AllNonKey(df) ==
    LET key_cols == Present(KEY_COLS, df)
    IN  Select(df, key_cols \o SelectSeq(df.cols,
                   LAMBDA c : \A i \in DOMAIN key_cols : key_cols[i] # c))
\* lines 434-435
derived_table(df) ==
    LET core_cols == Present(CORE_COLS, df)
        key_cols == Present(KEY_COLS, df)
        derived_cols ==
            SelectSeq(df.cols,
                      LAMBDA c : \A i \in DOMAIN core_cols : core_cols[i] # c)
    IN  IF derived_cols # <<>> THEN Select(df, key_cols \o derived_cols)
        ELSE Select(df, key_cols)

\* the order of transponder ids as strings
IcaoRank(id) == CASE id = "a1" -> 1 [] id = "b2" -> 2 [] OTHER -> 0

\* row i sorts no later than row j under sort(['icao', 'datetime_utc'])
SortLeq(ri, rj) ==
    \/ IcaoRank(ri["icao"].v) < IcaoRank(rj["icao"].v)
    \/ /\ IcaoRank(ri["icao"].v) = IcaoRank(rj["icao"].v)
       /\ ri["datetime_utc"].v <= rj["datetime_utc"].v

\* the row orders data_df.sort may return: ties are in no promised order
SortOrders(df) ==
    LET n == Len(df.rows)
    IN  {p \in [1..n -> 1..n] :
            /\ \A i, j \in 1..n : i # j => p[i] # p[j]
            /\ \A i, j \in 1..n : i < j => SortLeq(df.rows[p[i]], df.rows[p[j]])}

Reorder(df, p) == [cols |-> df.cols, rows |-> [i \in DOMAIN df.rows |-> df.rows[p[i]]]]

\* records = [_flatten_record(rec) for rec in client.records]; pl.DataFrame
flatten_records(recs) == [i \in DOMAIN recs |-> flatten_record(Items(recs[i]))]
build_dataset(recs) == DataFrame(flatten_records(recs))

(***************************************************************************)
(* get_statistics: dict(self.msg_counts) is a new mapping object.          *)
(***************************************************************************)
NoStats == [obj |-> "none", val |-> Empty]
\* faulty variant: the session's own mapping is handed out
get_statistics_alias(counts) == [obj |-> "self", val |-> counts]
\* line 362: dict(self.msg_counts)
get_statistics(counts) == [obj |-> "copy", val |-> counts]

(***************************************************************************)
(* The frames a frame source delivers.                                     *)
(***************************************************************************)
Ids == {"a1", "b2"}
Ts == {100, 105, 110}
PosOutcomes == [primary : {"ok", "fail"}, with_ref : {"ok", "fail"}]

Plain(df, icao) == MkMsg(HexLen, 0, df, icao, 0, 0, "none", Nominal)
Adsb(icao, tc, oe, raises) == MkMsg(HexLen, 0, 17, icao, tc, oe, raises, Nominal)
BadLength == MkMsg(HexLen - 2, 0, 17, "a1", 11, 0, "none", Nominal)
BadCrc == MkMsg(HexLen, 1, 17, "a1", 11, 0, "none", Nominal)

\* the script's receiver location (lines 370-371)
ScriptRef == <<Num(4046014), Num(-10956579)>>
RefPoints == {<<NoneV, NoneV>>, ScriptRef, <<Num(0), Num(-10956579)>>}

\* a capture session of the script: every kind of frame, one aircraft
SessionMsgs ==
    {BadLength, BadCrc, Plain(17, NoIcao)}
    \cup {Plain(df, "a1") : df \in {0, 4, 11, 20}}
    \cup {Adsb("a1", 4, 0, "none"), Adsb("a1", 11, 0, "none"),
          Adsb("a1", 11, 1, "none"), Adsb("a1", 11, 0, "typecode")}
SessionFrames == SessionMsgs \X {100, 105}

\* position traffic of two aircraft: surface, airborne and non-position
\* typecodes, both parities, timestamps 0, 5 and 10 seconds apart
PosMsgs ==
    {Adsb(id, tc, oe, "none") : id \in Ids, tc \in {5, 11}, oe \in {0, 1}}
    \cup {Adsb(id, 29, 0, "none") : id \in Ids}
    \cup {Adsb("a1", 22, 1, "none"), Adsb("a1", 23, 0, "none")}
    \cup {Adsb("a1", 11, 0, "oe_flag"), Plain(4, "a1")}
PosFrames == PosMsgs \X Ts

\* a message whose decoders in fs have every outcome in outs, the others
\* succeeding
Vary(msg, fs, outs) ==
    {[msg EXCEPT !.dec = [f \in Guarded |-> IF f \in fs THEN o[f] ELSE "value"]] :
        o \in [fs -> outs]}

\* one frame of every downlink-format family, with every outcome of the
\* decode calls each family makes
DecodeMsgs ==
    Vary(Adsb("a1", 4, 0, "none"), {"altitude", "speed_heading"}, Outcomes)
    \cup {Adsb("a1", 4, 0, "typecode"), Adsb("a1", 11, 0, "oe_flag"),
          Adsb("a1", 11, 0, "none"), Plain(0, "a1")}
    \cup Vary(Plain(20, "a1"), {"infer"}, {"raise", "none", "value"})
    \cup Vary(Plain(20, "a1"), {"is44"}, {"raise", "value"})
    \cup Vary(Plain(20, "a1"), {"wind44", "temp44"}, Outcomes)
    \cup Vary(Plain(4, "a1"), {"altcode"}, {"raise", "none", "value"})
    \cup Vary(Plain(11, "a1"), {"ca"}, {"raise", "none", "value"})
DecodeFrames == DecodeMsgs \X {100}

\* traffic for a caller that reads the statistics while frames arrive
StatMsgs == {BadCrc, Plain(4, "a1"), Plain(20, "a1"), Adsb("a1", 11, 0, "none")}
StatFrames == StatMsgs \X {100}

(***************************************************************************)
(* Actions.                                                                *)
(***************************************************************************)
NoLast == [fate |-> "none"]

InitWith(refs) ==
    /\ phase = "capturing"
    /\ alarm = "armed"
    /\ records = <<>>
    /\ position_cache = Empty
    /\ msg_counts = Empty
    /\ \E r \in refs : ref_lat = r[1] /\ ref_lon = r[2]
    /\ stats = NoStats
    /\ flat_records = <<>>
    /\ data_df = <<>>
    /\ core_df = <<>>
    /\ derived_df = <<>>
    /\ tally = [handed |-> 0, malformed |-> 0, unidentified |-> 0]
    /\ last = NoLast

Malformed(msg) == msg.hexlen # HexLen \/ msg.crc # 0

Tally(t, msg) ==
    [handed |-> t.handed + 1,
     malformed |-> t.malformed + (IF Malformed(msg) THEN 1 ELSE 0),
     unidentified |-> t.unidentified
                      + (IF ~Malformed(msg) /\ msg.icao = NoIcao THEN 1 ELSE 0)]

\* the session after the first n writes of result r
Written(r, n) ==
    ApplyEffs([counts |-> msg_counts, cache |-> position_cache,
               records |-> records], r.effs, n)

Outcome(frame, r, n, fate, intr) ==
    [frame |-> frame, fate |-> fate, writes |-> n, intr |-> intr,
     pos |-> r.pos, calls |-> r.calls]

\* handle_messages runs one iteration of its loop to the end: the frame is
\* dropped, or its record appended, or an unguarded call raises and the
\* exception leaves client.run (the finally clause cancels the alarm)
HandleMessage(F) ==
    /\ phase = "capturing"
    /\ tally.handed < MaxFrames
    /\ \E frame \in F, pos \in PosOutcomes :
        \E r \in {handle_message(frame[1], frame[2], pos, position_cache,
                                 ref_lat, ref_lon, "none")} :
        \E s \in {Written(r, Len(r.effs))} :
            /\ msg_counts' = s.counts
            /\ position_cache' = s.cache
            /\ records' = s.records
            /\ phase' = IF r.raised THEN "failed" ELSE phase
            /\ alarm' = IF r.raised /\ alarm = "armed" THEN "cancelled" ELSE alarm
            /\ tally' = Tally(tally, frame[1])
            /\ last' = Outcome(frame, r, Len(r.effs), r.fate, "none")
    /\ UNCHANGED <<ref_lat, ref_lon, stats, flat_records, data_df,
                   core_df, derived_df>>

\* the alarm fires while handle_messages is outside any try block, after
\* the first n writes of the iteration: TimeoutException leaves client.run
\* and is caught at line 382
AlarmInHandler(F) ==
    /\ phase = "capturing"
    /\ alarm = "armed"
    /\ tally.handed < MaxFrames
    /\ \E frame \in F, pos \in PosOutcomes :
        \E r \in {handle_message(frame[1], frame[2], pos, position_cache,
                                 ref_lat, ref_lon, "none")} :
        \E n \in 0..Len(r.effs) :
        \E s \in {Written(r, n)} :
            LET whole == n = Len(r.effs) /\ ~r.raised
            IN  /\ msg_counts' = s.counts
                /\ position_cache' = s.cache
                /\ records' = s.records
                /\ last' = Outcome(frame, r, n,
                                   IF whole THEN r.fate ELSE "interrupted", "none")
                /\ tally' = Tally(tally, frame[1])
    /\ phase' = "stopped"
    /\ alarm' = "fired"
    /\ UNCHANGED <<ref_lat, ref_lon, stats, flat_records, data_df,
                   core_df, derived_df>>

\* the alarm fires while handle_messages is inside a try block, during the
\* guarded call intr: the bare except clause catches TimeoutException, the
\* call counts as failed and the capture goes on
AlarmSwallowed(F) ==
    /\ phase = "capturing"
    /\ alarm = "armed"
    /\ tally.handed < MaxFrames
    /\ \E frame \in F, pos \in PosOutcomes :
        \E r0 \in {handle_message(frame[1], frame[2], pos, position_cache,
                                  ref_lat, ref_lon, "none")} :
        \E intr \in r0.calls :
        \E r \in {handle_message(frame[1], frame[2], pos, position_cache,
                                 ref_lat, ref_lon, intr)} :
        \E s \in {Written(r, Len(r.effs))} :
                /\ msg_counts' = s.counts
                /\ position_cache' = s.cache
                /\ records' = s.records
                /\ phase' = IF r.raised THEN "failed" ELSE phase
                /\ last' = Outcome(frame, r, Len(r.effs), r.fate, intr)
                /\ tally' = Tally(tally, frame[1])
    /\ alarm' = "swallowed"
    /\ UNCHANGED <<ref_lat, ref_lon, stats, flat_records, data_df,
                   core_df, derived_df>>

\* the alarm fires while client.run waits for the frame source
AlarmIdle ==
    /\ phase = "capturing"
    /\ alarm = "armed"
    /\ phase' = "stopped"
    /\ alarm' = "fired"
    /\ UNCHANGED <<records, position_cache, msg_counts, ref_lat, ref_lon,
                   stats, flat_records, data_df,
                   core_df, derived_df, tally, last>>

\* client.run raises anything but TimeoutException (the frame source is
\* unreachable or fails): no except clause matches, the script ends with a
\* traceback after the finally clause
SourceFail ==
    /\ phase = "capturing"
    /\ phase' = "failed"
    /\ alarm' = IF alarm = "armed" THEN "cancelled" ELSE alarm
    /\ UNCHANGED <<records, position_cache, msg_counts, ref_lat, ref_lon,
                   stats, flat_records, data_df,
                   core_df, derived_df, tally, last>>

\* lines 387-391
Report ==
    /\ phase = "stopped"
    /\ stats' = get_statistics(msg_counts)
    /\ phase' = "reported"
    /\ UNCHANGED <<alarm, records, position_cache, msg_counts, ref_lat,
                   ref_lon, flat_records, data_df,
                   core_df, derived_df, tally, last>>

\* lines 393-439
Flush ==
    /\ phase = "reported"
    /\ flat_records' = flatten_records(records)
    /\ \E df \in {build_dataset(records)} :
           IF Len(df.rows) > 0
           THEN \E p \in SortOrders(df) :
                \E q \in {apply_quantization(Reorder(df, p))} :
                       /\ data_df' = <<q>>
                       /\ core_df' = <<core_table(q)>>
                       /\ derived_df' = <<derived_table(q)>>
           ELSE /\ data_df' = <<df>>
                /\ UNCHANGED <<core_df, derived_df>>
    /\ phase' = "done"
    /\ UNCHANGED <<alarm, records, position_cache, msg_counts, ref_lat,
                   ref_lon, stats, tally, last>>

\* a caller of BeastDF.get_statistics at any time (line 360)
GetStatistics ==
    /\ stats' = get_statistics(msg_counts)
    /\ UNCHANGED <<phase, alarm, records, position_cache, msg_counts, ref_lat,
                   ref_lon, flat_records, data_df,
                   core_df, derived_df, tally, last>>

\* the mappings a caller can turn m into: one key deleted, or zeroed
Modified(m) ==
    {[k \in DOMAIN m \ {d} |-> m[k]] : d \in DOMAIN m}
    \cup {[m EXCEPT ![d] = 0] : d \in DOMAIN m}

\* the caller changes the mapping it was given; a mapping that is the
\* session's own object changes the session's counters
ModifyReturned ==
    /\ stats.obj # "none"
    /\ IF stats.obj = "self"
       THEN /\ \E m \in Modified(msg_counts) : msg_counts' = m
            /\ UNCHANGED stats
       ELSE /\ \E m \in Modified(stats.val) : stats' = [stats EXCEPT !.val = m]
            /\ UNCHANGED msg_counts
    /\ UNCHANGED <<phase, alarm, records, position_cache, ref_lat, ref_lon,
                   flat_records, data_df,
                   core_df, derived_df, tally, last>>

Init == InitWith({ScriptRef})

Next ==
    \/ HandleMessage(SessionFrames)
    \/ AlarmInHandler(SessionFrames)
    \/ AlarmSwallowed(SessionFrames)
    \/ AlarmIdle
    \/ SourceFail
    \/ Report
    \/ Flush

Spec == Init /\ [][Next]_vars

\* the position pairing cache under position traffic, with and without a
\* reference point
InitPos == InitWith(RefPoints)
NextPos == HandleMessage(PosFrames)
SpecPos == InitPos /\ [][NextPos]_vars

\* the decode dispatch under every decoder outcome
NextDecode == HandleMessage(DecodeFrames)
SpecDecode == Init /\ [][NextDecode]_vars

\* handle_messages interleaved with get_statistics calls
NextStats ==
    \/ HandleMessage(StatFrames)
    \/ GetStatistics
    \/ ModifyReturned
SpecStats == Init /\ [][NextStats]_vars

(***************************************************************************)
(* The dataset pipeline of __main__ (lines 394-435) step by step, over     *)
(* records with every shape of value the decoders can leave in a record.   *)
(***************************************************************************)
\* a field left out of a record
Absent == [tuple |-> FALSE, items |-> <<>>]
WithField(rec, k, v) == IF v = Absent THEN rec ELSE Put(rec, k, v)

AltitudeShapes ==
    {Absent, Scalar(NoneV), Scalar(Num(101230000)), Scalar(Num(-3750000))}
SpeedHeadingShapes ==
    {Absent, Tuple(<<Num(43127000)>>), Tuple(<<Num(43127000), Num(8734000)>>),
     Tuple(<<Num(43127000), Num(8734000), Str("gs")>>)}
Wind44Shapes ==
    {Absent, Tuple(<<NoneV, NoneV>>), Tuple(<<Num(2250000), Num(27065000)>>)}
Temp44Shapes ==
    {Absent, Tuple(<<Num(-4826000)>>), Tuple(<<Num(-4826000), Num(-4751000)>>)}
CapabilityShapes ==
    {Absent, Scalar(Num(5)), Tuple(<<>>), Tuple(<<Num(5), Str("airborne")>>)}
PositionShapes == {"none", "airborne"}

ShapedRecord(msg, ts, a, s, w, t, c, p) ==
    LET r1 == WithField(BaseRecord(msg, ts), "altitude", a)
        r2 == WithField(r1, "speed_heading", s)
        r3 == IF p = "none" THEN r2 ELSE PosFields(r2, p)
        r4 == WithField(r3, "wind44", w)
        r5 == WithField(r4, "temp44", t)
    IN  WithField(r5, "capability", c)

\* one-record sessions with every combination of shapes, and two-record
\* sessions of two aircraft at equal and different times
PipelineRecords ==
    {<<ShapedRecord(Plain(17, "a1"), 100, a, s, w, t, c, p)>> :
        a \in AltitudeShapes, s \in SpeedHeadingShapes, w \in Wind44Shapes,
        t \in Temp44Shapes, c \in CapabilityShapes, p \in PositionShapes}
    \cup
    {<<ShapedRecord(Plain(17, i1), t1, a, Absent, Absent, Absent, Absent, "none"),
       ShapedRecord(Plain(20, i2), t2, Absent, Absent, w, Absent, c, "none")>> :
        i1 \in Ids, i2 \in Ids, t1 \in {100, 105}, t2 \in {100, 105},
        a \in AltitudeShapes, w \in Wind44Shapes, c \in {Absent, Scalar(Num(5))}}

InitPipeline ==
    /\ phase = "reported"
    /\ alarm = "fired"
    /\ records \in PipelineRecords
    /\ position_cache = Empty
    /\ msg_counts = Empty
    /\ ref_lat = ScriptRef[1]
    /\ ref_lon = ScriptRef[2]
    /\ stats = NoStats
    /\ flat_records = <<>>
    /\ data_df = <<>>
    /\ core_df = <<>>
    /\ derived_df = <<>>
    /\ tally = [handed |-> 0, malformed |-> 0, unidentified |-> 0]
    /\ last = NoLast

\* line 394
FlattenRecords ==
    /\ phase = "reported"
    /\ flat_records' = flatten_records(records)
    /\ phase' = "flattened"
    /\ UNCHANGED <<alarm, records, position_cache, msg_counts, ref_lat,
                   ref_lon, stats, data_df, core_df, derived_df, tally, last>>

\* lines 395-400
BuildDataset ==
    /\ phase = "flattened"
    /\ \E df \in {DataFrame(flat_records)} :
        \E p \in SortOrders(df) : data_df' = <<Reorder(df, p)>>
    /\ phase' = "sorted"
    /\ UNCHANGED <<alarm, records, position_cache, msg_counts, ref_lat,
                   ref_lon, stats, flat_records, core_df, derived_df, tally,
                   last>>

\* line 402, and _apply_quantization applied once more to its own result
Quantize ==
    /\ phase \in {"sorted", "quantized"}
    /\ data_df' = <<apply_quantization(data_df[1])>>
    /\ phase' = IF phase = "sorted" THEN "quantized" ELSE "requantized"
    /\ UNCHANGED <<alarm, records, position_cache, msg_counts, ref_lat,
                   ref_lon, stats, flat_records, core_df, derived_df, tally,
                   last>>

\* lines 404-435
Partition ==
    /\ phase = "quantized"
    /\ core_df' = <<core_table(data_df[1])>>
    /\ derived_df' = <<derived_table(data_df[1])>>
    /\ phase' = "done"
    /\ UNCHANGED <<alarm, records, position_cache, msg_counts, ref_lat,
                   ref_lon, stats, flat_records, data_df, tally, last>>

NextPipeline ==
    \/ FlattenRecords
    \/ BuildDataset
    \/ Quantize
    \/ Partition
SpecPipeline == InitPipeline /\ [][NextPipeline]_vars

(***************************************************************************)
(* Vocabulary of the properties.                                           *)
(***************************************************************************)
CountOf(counts, k) == IF k \in DOMAIN counts THEN counts[k] ELSE 0
\* this step handed one frame to handle_messages
HandledFrame == tally'.handed = tally.handed + 1
LastRecord == records[Len(records)]
\* the message a record was built from
MsgOf(rec) == rec["msg"].items[1].v
TsOf(rec) == rec["timestamp"].items[1].v \div Unit
PosKeys == {"latitude", "longitude", "position_type"}
HasPosition(rec) == "latitude" \in DOMAIN rec \/ "longitude" \in DOMAIN rec
NoPositionKey(rec) == PosKeys \cap DOMAIN rec = {}
Distance(a, b) == IF a >= b THEN a - b ELSE b - a
\* a DF17/18 airborne-position message (typecode 9-22)
AirbornePositionMsg(m) ==
    /\ m.hexlen = 28 /\ m.crc = 0 /\ m.df \in {17, 18}
    /\ m.tc >= 9 /\ m.tc <= 22 /\ m.raises = "none"

(***************************************************************************)
(* C1: a frame of the wrong length or with a non-zero checksum residual    *)
(* appends no record and leaves the position cache unchanged; when         *)
(* handle_messages finishes the frame, the counters are unchanged for a    *)
(* wrong length and only crc_fail is one higher for a failed checksum; no  *)
(* df, tc or bds counter ever changes for such a frame.                    *)
(***************************************************************************)
C1_InvalidFrameDropped ==
    [][(HandledFrame /\ Malformed(last'.frame[1])) =>
          LET m == last'.frame[1]
              bump == IF m.hexlen = 28 /\ last'.fate # "interrupted"
                      THEN {"crc_fail"} ELSE {}
          IN  /\ records' = records
              /\ position_cache' = position_cache
              /\ \A k \in DOMAIN msg_counts \cup DOMAIN msg_counts' :
                    k # "crc_fail" => CountOf(msg_counts', k) = CountOf(msg_counts, k)
              /\ CountOf(msg_counts', "crc_fail") =
                    CountOf(msg_counts, "crc_fail") + Cardinality(bump)
              /\ DOMAIN msg_counts' = DOMAIN msg_counts \cup bump]_vars

\* a frame failing the checksum was dropped after a record had been appended
C1_Witness ==
    /\ last.fate = "crc_fail"
    /\ Len(records) = 1
    /\ CountOf(msg_counts, "crc_fail") = 1

(***************************************************************************)
(* C2: a record carries a position only if, when its frame was processed,  *)
(* the even and the odd slot of its transponder id were both populated and *)
(* their timestamps were less than 10 seconds apart.                       *)
(***************************************************************************)
C2_PositionNeedsFreshPair ==
    (last.fate = "appended" /\ ~NoPositionKey(LastRecord)) =>
        LET id == MsgOf(LastRecord).icao
        IN  /\ id \in DOMAIN position_cache
            /\ DOMAIN position_cache[id] = {"even", "odd"}
            /\ Distance(position_cache[id]["even"][2],
                        position_cache[id]["odd"][2]) < 10

\* a position was written from a pair 5 seconds apart
C2_Witness ==
    /\ last.fate = "appended"
    /\ HasPosition(LastRecord)
    /\ Distance(position_cache[MsgOf(LastRecord).icao]["even"][2],
                position_cache[MsgOf(LastRecord).icao]["odd"][2]) = 5

(***************************************************************************)
(* C3: from an empty cache, an even and an odd airborne-position frame of  *)
(* one transponder id, in either order and less than 10 seconds apart,     *)
(* give two records; unless the airborne decoder was called and failed,    *)
(* the second carries latitude, longitude and position_type "airborne" and *)
(* the first carries no position field.                                    *)
(***************************************************************************)
C3_Premise ==
    /\ tally.handed = 2
    /\ Len(records) = 2
    /\ AirbornePositionMsg(MsgOf(records[1]))
    /\ AirbornePositionMsg(MsgOf(records[2]))
    /\ MsgOf(records[1]).icao = MsgOf(records[2]).icao
    /\ {MsgOf(records[1]).oe, MsgOf(records[2]).oe} = {0, 1}
    /\ Distance(TsOf(records[1]), TsOf(records[2])) < 10

C3_PairGivesOnePosition ==
    (C3_Premise /\ ~(last.pos.call = "airborne" /\ last.pos.got # "primary")) =>
        /\ NoPositionKey(records[1])
        /\ PosKeys \subseteq DOMAIN records[2]
        /\ ~records[2]["latitude"].items[1].null
        /\ ~records[2]["longitude"].items[1].null
        /\ records[2]["position_type"] = Scalar(Str("airborne"))

\* the odd frame came first, the even frame 5 seconds later got the position
C3_Witness ==
    /\ C3_Premise
    /\ MsgOf(records[1]).oe = 1
    /\ TsOf(records[2]) = TsOf(records[1]) + 5
    /\ "position_type" \in DOMAIN records[2]
    /\ records[2]["position_type"] = Scalar(Str("airborne"))

\* length 28, checksum residual 0, non-empty transponder id
Accepted(m) == m.hexlen = 28 /\ m.crc = 0 /\ m.icao # ""
AllNull(val) == \A i \in DOMAIN val.items : val.items[i].null
\* the decode loop a downlink format runs, as the record keys it fills
LoopFields(m) ==
    CASE m.df \in {17, 18} -> {"altitude", "speed_heading"}
      [] m.df \in {20, 21} -> {"wind44", "temp44"}
      [] OTHER -> {}

(***************************************************************************)
(* C4 as the specification states it: every accepted frame appends exactly *)
(* one record and raises nothing, whichever decode calls fail, and every   *)
(* field decoder of its loop that returned a value has its field in the    *)
(* record.                                                                 *)
(***************************************************************************)
C4_EveryDecodeCallIsolated ==
    (last.fate # "none" /\ Accepted(last.frame[1])) =>
        /\ last.fate = "appended"
        /\ phase # "failed"
        /\ Len(records) = tally.handed
        /\ \A f \in LoopFields(last.frame[1]) :
              last.frame[1].dec[f] = "value" => f \in DOMAIN LastRecord

\* an accepted DF17 frame whose typecode extraction raised: no record, and
\* the exception left handle_messages
C4_Witness ==
    /\ last.fate = "raised"
    /\ Accepted(last.frame[1])
    /\ last.frame[1].raises = "typecode"
    /\ records = <<>>
    /\ phase = "failed"

(***************************************************************************)
(* C5 as the specification states it: in every record, no key other than   *)
(* the base identity fields holds a null or an all-null tuple.             *)
(***************************************************************************)
C5_NoNullDecodedField ==
    \A i \in DOMAIN records :
        \A k \in DOMAIN records[i] \ {"timestamp", "datetime_utc", "msg",
                                      "msg_hash", "df", "icao"} :
            ~AllNull(records[i][k])

\* a DF20 record holding bds = None after a failed or empty inference
C5_Witness ==
    /\ last.fate = "appended"
    /\ last.frame[1].df = 20
    /\ last.frame[1].dec["infer"] \in {"raise", "none"}
    /\ "bds" \in DOMAIN LastRecord
    /\ LastRecord["bds"].items[1].null

(***************************************************************************)
(* C6: every record has a non-empty icao, the transponder id extracted     *)
(* from its frame; a well-formed frame without a transponder id appends no *)
(* record and changes no counter.                                          *)
(***************************************************************************)
C6_IcaoNeverEmpty ==
    [][/\ \A i \in DOMAIN records' :
            /\ ~records'[i]["icao"].items[1].null
            /\ records'[i]["icao"].items[1].v # ""
            /\ records'[i]["icao"].items[1].v = MsgOf(records'[i]).icao
       /\ (HandledFrame /\ ~Malformed(last'.frame[1]) /\ last'.frame[1].icao = "") =>
            /\ records' = records
            /\ msg_counts' = msg_counts]_vars

\* a frame without a transponder id was dropped after a record was appended
C6_Witness ==
    /\ last.fate = "no_icao"
    /\ Len(records) = 1
    /\ tally.unidentified = 1

RECURSIVE SumOver(_, _)
SumOver(counts, keys) ==
    IF keys = {} THEN 0
    ELSE LET k == CHOOSE x \in keys : TRUE
         IN  counts[k] + SumOver(counts, keys \ {k})
\* the downlink-format labels
DfLabels == {"df" \o ToString(n) : n \in 0..24}
DfTotal == SumOver(msg_counts, DOMAIN msg_counts \cap DfLabels)
CounterTotal == SumOver(msg_counts, DOMAIN msg_counts)
\* no frame was cut short by the stop signal: every frame handed so far
\* ran to the end of its iteration or to an exception of its own
AllWhole == last.fate # "interrupted"

(***************************************************************************)
(* C7 as the specification states it: after N frames of which M are        *)
(* malformed, all the counters together sum to N - M.                      *)
(***************************************************************************)
C7_AllCountersSum ==
    AllWhole => CounterTotal = tally.handed - tally.malformed

(***************************************************************************)
(* C7, amended: after N frames of which M are malformed, the df counters   *)
(* sum to N - M less the well-formed frames without a transponder id; the  *)
(* crc_fail, tc and bds counters come on top of that.                      *)
(***************************************************************************)
C7_DfCountersSum ==
    AllWhole =>
        /\ DfTotal = tally.handed - tally.malformed - tally.unidentified
        /\ CounterTotal >= DfTotal

\* two DF17 frames, none malformed: df17 = 2 and tc counters on top
C7_Witness ==
    /\ AllWhole
    /\ tally = [handed |-> 2, malformed |-> 0, unidentified |-> 0]
    /\ DfTotal = 2
    /\ CounterTotal = 4

(***************************************************************************)
(* C8: no step of a session lowers or removes a counter; get_statistics    *)
(* changes no counter and returns the counters as they are; a step that    *)
(* processes no frame, such as a change of the returned mapping, changes   *)
(* no counter.                                                             *)
(***************************************************************************)
C8_CountersMonotone ==
    [][/\ \A k \in DOMAIN msg_counts :
            k \in DOMAIN msg_counts' /\ msg_counts'[k] >= msg_counts[k]
       /\ tally' = tally => msg_counts' = msg_counts
       /\ GetStatistics => stats'.val = msg_counts /\ msg_counts' = msg_counts]_vars

\* the caller zeroed a counter of the returned mapping; the session's
\* counter kept its value
C8_Witness ==
    /\ stats.obj = "copy"
    /\ \E k \in DOMAIN stats.val \cap DOMAIN msg_counts :
          stats.val[k] = 0 /\ msg_counts[k] = 2

\* the records of the session, each as exactly one row of table t
EachRecordOneRow(t) ==
    /\ Len(t) = 1
    /\ Len(t[1].rows) = Len(records)
    /\ \E p \in [DOMAIN records -> DOMAIN records] :
          /\ \A i, j \in DOMAIN records : i # j => p[i] # p[j]
          /\ \A i \in DOMAIN records :
                /\ t[1].rows[p[i]]["msg_hash"] = records[i]["msg_hash"].items[1]
                /\ t[1].rows[p[i]]["icao"] = records[i]["icao"].items[1]
                /\ t[1].rows[p[i]]["datetime_utc"] = records[i]["datetime_utc"].items[1]
Flushed == EachRecordOneRow(core_df) /\ EachRecordOneRow(derived_df)

(***************************************************************************)
(* C9 as the specification states it: the stop signal firing after a       *)
(* record has been accumulated stops the capture, and the session that     *)
(* ends after the signal has written every accumulated record as exactly   *)
(* one row of the core table and one row of the derived table.             *)
(***************************************************************************)
C9_StopFlushesRecords ==
    [][/\ (alarm = "armed" /\ alarm' \in {"fired", "swallowed"} /\ Len(records) >= 1)
            => phase' \in {"stopped", "failed"}
       /\ (alarm' \in {"fired", "swallowed"} /\ phase' = "done" /\ Len(records') >= 1)
            => Flushed']_vars

\* the signal arrived inside a guarded decode call of the second frame:
\* the capture goes on with the alarm spent
C9_Witness ==
    /\ alarm = "swallowed"
    /\ phase = "capturing"
    /\ Len(records) = 2
    /\ last.intr # "none"

(***************************************************************************)
(* C10 as the specification states it: a session ended by a fatal error of *)
(* the frame source has written the records accumulated before the error   *)
(* to the two datasets.                                                    *)
(***************************************************************************)
C10_FailureKeepsRecords ==
    (phase = "failed" /\ Len(records) >= 1) => Flushed

\* the frame source failed after a record was accumulated: nothing written
C10_Witness ==
    /\ phase = "failed"
    /\ last.fate = "appended"
    /\ Len(records) >= 1
    /\ core_df = <<>>
    /\ derived_df = <<>>

ColSet(t) == {t.cols[i] : i \in DOMAIN t.cols}
JoinKeys == {"timestamp", "datetime_utc", "icao", "msg_hash"}
Partitioned == phase = "done" /\ Len(core_df) = 1 /\ Len(derived_df) = 1

(***************************************************************************)
(* C11: the core table and the derived table have as many rows as the      *)
(* dataset, row i of each is row i of the dataset restricted to the        *)
(* table's columns, and every join key the dataset has is in both tables   *)
(* with the same value in the core row and the derived row.                *)
(***************************************************************************)
C11_PartitionKeepsRows ==
    Partitioned =>
        LET d == data_df[1]
            c == core_df[1]
            v == derived_df[1]
        IN  /\ Len(d.rows) >= 1
            /\ Len(c.rows) = Len(d.rows)
            /\ Len(v.rows) = Len(d.rows)
            /\ \A i \in DOMAIN d.rows :
                  /\ \A k \in ColSet(c) : c.rows[i][k] = d.rows[i][k]
                  /\ \A k \in ColSet(v) : v.rows[i][k] = d.rows[i][k]
                  /\ \A k \in JoinKeys \cap ColSet(d) :
                        /\ k \in ColSet(c)
                        /\ k \in ColSet(v)
                        /\ c.rows[i][k] = v.rows[i][k]

\* two aircraft, sorted into the other order than they were recorded in
C11_Witness ==
    /\ Partitioned
    /\ Len(records) = 2
    /\ MsgOf(records[1]).icao = "b2"
    /\ core_df[1].rows[1]["icao"] = Str("a1")
    /\ derived_df[1].rows[2]["icao"] = Str("b2")

(***************************************************************************)
(* C12: every column of the dataset is in the core table or in the derived *)
(* table; the columns in both are exactly the join keys the dataset has;   *)
(* the core table holds the core-list columns the dataset has and omits    *)
(* the others.                                                             *)
(***************************************************************************)
C12_PartitionCoversColumns ==
    Partitioned =>
        LET D == ColSet(data_df[1])
            C == ColSet(core_df[1])
            V == ColSet(derived_df[1])
        IN  /\ C \cup V = D
            /\ C \cap V = JoinKeys \cap D
            /\ C = {CORE_COLS[i] : i \in DOMAIN CORE_COLS} \cap D
            /\ Cardinality(C) = Len(core_df[1].cols)
            /\ Cardinality(V) = Len(derived_df[1].cols)

\* a dataset with a core column, a derived column and no altitude column
C12_Witness ==
    /\ Partitioned
    /\ "latitude" \in ColSet(core_df[1])
    /\ "wind44_dir" \in ColSet(derived_df[1])
    /\ "altitude" \notin ColSet(data_df[1])

\* the number of values a record holds: its scalars and its tuple elements
RECURSIVE ValueCount(_, _)
ValueCount(rec, keys) ==
    IF keys = {} THEN 0
    ELSE LET k == CHOOSE x \in keys : TRUE
         IN  (IF rec[k].tuple THEN Len(rec[k].items) ELSE 1)
             + ValueCount(rec, keys \ {k})
Holds(flat, name, item) ==
    \E j \in DOMAIN flat : flat[j][1] = name /\ flat[j][2] = item

(***************************************************************************)
(* C13: the flattened mapping of a record has one field per scalar and per *)
(* tuple element of the record, under pairwise distinct names: a scalar    *)
(* under its key, element idx of a tuple without a name-table entry under  *)
(* {key}_{idx}, an element of a named tuple under some name; a second run  *)
(* over the record gives the same mapping.                                 *)
(***************************************************************************)
C13_FlattenTotal ==
    phase # "reported" =>
        /\ Len(flat_records) = Len(records)
        /\ \A i \in DOMAIN records :
            LET rec == records[i]
                flat == flat_records[i]
            IN  /\ Len(flat) = ValueCount(rec, DOMAIN rec)
                /\ \A a, b \in DOMAIN flat : a # b => flat[a][1] # flat[b][1]
                /\ \A k \in DOMAIN rec :
                      IF ~rec[k].tuple THEN Holds(flat, k, rec[k].items[1])
                      ELSE \A n \in DOMAIN rec[k].items :
                             IF k \in DOMAIN TUPLE_FIELD_MAP
                             THEN \E name \in {TUPLE_FIELD_MAP[k][j] :
                                                j \in DOMAIN TUPLE_FIELD_MAP[k]}
                                             \cup {k \o "_" \o ToString(n - 1)} :
                                     Holds(flat, name, rec[k].items[n])
                             ELSE Holds(flat, k \o "_" \o ToString(n - 1),
                                        rec[k].items[n])
                /\ flatten_record(Items(rec)) = flat

\* a tuple longer than its name table and a tuple without a name table
C13_Witness ==
    /\ phase = "flattened"
    /\ Len(records) = 1
    /\ Holds(flat_records[1], "speed_heading_2", Str("gs"))
    /\ Holds(flat_records[1], "capability_1", Str("airborne"))
    /\ Holds(flat_records[1], "temp44_c", Num(-4826000))

(***************************************************************************)
(* C14: applying _apply_quantization to its own result changes nothing.    *)
(***************************************************************************)
C14_QuantizationIdempotent ==
    [][(phase = "quantized" /\ phase' = "requantized") => data_df' = data_df]_vars

\* quantized twice, with a step column and a decimal column that the first
\* pass had moved: 1012.3 to 1000 and 270.65 to 270.7
C14_Witness ==
    /\ phase = "requantized"
    /\ Len(records) = 1
    /\ Holds(flat_records[1], "altitude", Num(101230000))
    /\ data_df[1].rows[1]["altitude"] = Num(100000000)
    /\ Holds(flat_records[1], "wind44_dir", Num(27065000))
    /\ data_df[1].rows[1]["wind44_dir"] = Num(27070000)

\* the grid the rule tables give a column of the dataset, 0 for no rule:
\* altitude to the nearest 25, position to 4 decimals, angles, speeds and
\* temperatures to 1 decimal
GridOf(col) ==
    CASE col = "altitude" -> 2500000
      [] col \in {"latitude", "longitude"} -> 10
      [] col \in {"spdhdg_speed", "spdhdg_heading", "wind44_speed",
                  "wind44_dir", "temp44_c", "temp44_1"} -> 10000
      [] OTHER -> 0
\* column c of dataset d holds numbers only
AllNumbers(d, c) ==
    \A i \in DOMAIN d.rows : d.rows[i][c].null \/ d.rows[i][c].t = "num"

(***************************************************************************)
(* C15: _apply_quantization keeps the columns, the number of rows and the  *)
(* null cells; it leaves a column that is not numeric or matches no rule   *)
(* as it is; a cell of a column with a rule becomes the multiple of that   *)
(* one rule's grid nearest to it.                                          *)
(***************************************************************************)
C15_QuantizationOneRule ==
    [][(phase = "sorted" /\ phase' = "quantized") =>
          LET d == data_df[1]
              q == data_df'[1]
          IN  /\ q.cols = d.cols
              /\ Len(q.rows) = Len(d.rows)
              /\ \A i \in DOMAIN d.rows :
                    /\ DOMAIN q.rows[i] = DOMAIN d.rows[i]
                    /\ \A c \in DOMAIN d.rows[i] :
                          /\ q.rows[i][c].null = d.rows[i][c].null
                          /\ (GridOf(c) = 0 \/ ~AllNumbers(d, c))
                                => q.rows[i][c] = d.rows[i][c]
                          /\ (GridOf(c) # 0 /\ AllNumbers(d, c) /\ ~d.rows[i][c].null)
                                => /\ q.rows[i][c].t = "num"
                                   /\ q.rows[i][c].v % GridOf(c) = 0
                                   /\ 2 * Distance(q.rows[i][c].v, d.rows[i][c].v)
                                         <= GridOf(c)]_vars

\* two rows: an altitude moved to its grid and a missing altitude kept
\* missing; the timestamps and the capability, under no rule, as decoded
C15_Witness ==
    /\ phase = "quantized"
    /\ Len(records) = 2
    /\ HasCol(data_df[1], "altitude")
    /\ HasCol(data_df[1], "capability")
    /\ Holds(flat_records[1], "altitude", Num(-3750000))
    /\ \E i, j \in DOMAIN data_df[1].rows :
          /\ data_df[1].rows[i]["altitude"] = Num(-5000000)
          /\ data_df[1].rows[j]["altitude"].null
          /\ data_df[1].rows[j]["capability"] = Num(5)

\* the frame a step handed to handle_messages, as (message, timestamp)
Handed == last'.frame
SlotOf(m) == IF m.oe = 0 THEN "even" ELSE "odd"
HasSlot(cache, id, p) == id \in DOMAIN cache /\ p \in DOMAIN cache[id]
\* both slots of id are populated and less than 10 seconds apart
FreshPair(cache, id) ==
    /\ HasSlot(cache, id, "even")
    /\ HasSlot(cache, id, "odd")
    /\ Distance(cache[id]["even"][2], cache[id]["odd"][2]) < 10

RefSupplied == ~ref_lat.null /\ ~ref_lon.null
\* the last frame was a position frame, appended, with a fresh pair
ResolvedFrame ==
    /\ last.fate = "appended"
    /\ last.frame[1].df \in {17, 18}
    /\ last.frame[1].tc >= 5 /\ last.frame[1].tc <= 22
    /\ FreshPair(position_cache, last.frame[1].icao)

(***************************************************************************)
(* C17 as the specification states it: with a fresh pair, a typecode 5-8   *)
(* frame is passed to the surface decoder exactly when a reference         *)
(* latitude and longitude were supplied, whatever their numeric values,    *)
(* and gets position_type "surface" when the decoder succeeds; a typecode  *)
(* 9-22 frame is passed to the airborne decoder with or without one.       *)
(***************************************************************************)
C17_SurfaceNeedsReference ==
    ResolvedFrame =>
        IF last.frame[1].tc <= 8
        THEN /\ (last.pos.call = "surface") <=> RefSupplied
             /\ last.pos.got = "primary" =>
                   LastRecord["position_type"] = Scalar(Str("surface"))
        ELSE last.pos.call = "airborne"

\* a fresh surface pair in a session whose reference latitude is 0.0: the
\* surface decoder was not called and the record has no position
C17_Witness ==
    /\ ResolvedFrame
    /\ last.frame[1].tc = 5
    /\ ref_lat = Num(0)
    /\ ~ref_lon.null
    /\ last.pos.call = "none"
    /\ NoPositionKey(LastRecord)

(***************************************************************************)
(* C18 as the specification states it: when the primary decode of a frame  *)
(* fails and a reference point is configured, the reference-relative       *)
(* decode is attempted and its success gives latitude, longitude and       *)
(* position_type "with_ref"; when it fails too, or no reference point is   *)
(* configured, the record has no position field; in each case the record   *)
(* is appended and nothing is raised.                                      *)
(***************************************************************************)
C18_FallbackWithReference ==
    (ResolvedFrame /\ last.pos.call # "none" /\ last.pos.got # "primary") =>
        /\ phase # "failed"
        /\ Len(records) = tally.handed
        /\ IF RefSupplied
           THEN /\ last.pos.fallback
                /\ IF last.pos.got = "with_ref"
                   THEN /\ PosKeys \subseteq DOMAIN LastRecord
                        /\ LastRecord["position_type"] = Scalar(Str("with_ref"))
                   ELSE NoPositionKey(LastRecord)
           ELSE /\ ~last.pos.fallback
                /\ NoPositionKey(LastRecord)

\* the airborne decode failed in a session whose reference latitude is
\* 0.0: the reference-relative decode was not attempted
C18_Witness ==
    /\ ResolvedFrame
    /\ last.pos.call = "airborne"
    /\ last.pos.got = "none"
    /\ ref_lat = Num(0)
    /\ ~ref_lon.null
    /\ ~last.pos.fallback

\* record i was built from a position frame of aircraft id and parity p
Observed(i, id, p) ==
    /\ MsgOf(records[i]).df \in {17, 18}
    /\ MsgOf(records[i]).tc >= 5 /\ MsgOf(records[i]).tc <= 22
    /\ MsgOf(records[i]).icao = id
    /\ SlotOf(MsgOf(records[i])) = p
\* the records of the position frames of id and p, in arrival order
Arrivals(id, p) == {i \in DOMAIN records : Observed(i, id, p)}
Latest(S) == CHOOSE i \in S : \A j \in S : j <= i

(***************************************************************************)
(* C19: after any sequence of frames, each slot holds exactly the (frame,  *)
(* timestamp) of the position frame of its id and parity that arrived      *)
(* last, whatever its timestamp, and a slot is populated only when such a  *)
(* frame has arrived.                                                      *)
(***************************************************************************)
C19_SlotHoldsLastArrival ==
    phase = "capturing" =>
        \A id \in Ids : \A p \in {"even", "odd"} :
            IF Arrivals(id, p) = {} THEN ~HasSlot(position_cache, id, p)
            ELSE /\ HasSlot(position_cache, id, p)
                 /\ position_cache[id][p] =
                       <<MsgOf(records[Latest(Arrivals(id, p))]),
                         TsOf(records[Latest(Arrivals(id, p))])>>

\* an even frame stamped 100 arrived after an even frame stamped 110 of
\* the same aircraft and replaced it
C19_Witness ==
    /\ Len(records) = 2
    /\ Arrivals("a1", "even") = {1, 2}
    /\ TsOf(records[1]) = 110
    /\ TsOf(records[2]) = 100
    /\ position_cache["a1"]["even"][2] = 100

\* the slots of a cache, as (id, parity) pairs
Slots(cache) == {<<id, p>> \in Ids \X {"even", "odd"} : HasSlot(cache, id, p)}

(***************************************************************************)
(* C20: a step never empties a slot; a frame changes at most the slot of   *)
(* its own id and parity, and only if it is a DF17/18 frame of typecode 5  *)
(* to 22; every other slot keeps its content.                              *)
(***************************************************************************)
C20_OnlyOwnSlotChanges ==
    [][/\ Slots(position_cache) \subseteq Slots(position_cache')
       /\ DOMAIN position_cache \subseteq DOMAIN position_cache'
       /\ \A sl \in Slots(position_cache') :
             (\/ sl \notin Slots(position_cache)
              \/ position_cache'[sl[1]][sl[2]] # position_cache[sl[1]][sl[2]])
             => /\ HandledFrame
                /\ Handed[1].df \in {17, 18}
                /\ Handed[1].tc >= 5 /\ Handed[1].tc <= 22
                /\ sl = <<Handed[1].icao, SlotOf(Handed[1])>>
                /\ position_cache'[sl[1]][sl[2]] = Handed]_vars

\* two slots populated by two frames, the second frame filling the odd
\* slot of an aircraft whose even slot was populated first
C20_Witness ==
    /\ Len(records) = 2
    /\ Slots(position_cache) = {<<"a1", "even">>, <<"a1", "odd">>}
    /\ position_cache["a1"]["even"] = <<MsgOf(records[1]), TsOf(records[1])>>
    /\ position_cache["a1"]["odd"] = <<MsgOf(records[2]), TsOf(records[2])>>
    /\ last.frame[1].df = 17

\* the typecode labels
TcLabels == {"tc" \o ToString(n) : n \in 0..31}
TcTotal == SumOver(msg_counts, DOMAIN msg_counts \cap TcLabels)
\* every frame handed so far ran to the end of its iteration: none was cut
\* short by the stop signal or by an exception
CompletelyProcessed == last.fate \notin {"interrupted", "raised"}
AcceptedFrames == tally.handed - tally.malformed - tally.unidentified
AdsbRecords == {i \in DOMAIN records : MsgOf(records[i]).df \in {17, 18}}

(***************************************************************************)
(* C21: after any sequence of completely processed frames the df counters  *)
(* sum to the number of records, which is the number of accepted frames    *)
(* (length 28, checksum residual 0, non-empty transponder id), and the tc  *)
(* counters sum to the number of DF17/18 records.                          *)
(***************************************************************************)
C21_CountersMatchRecords ==
    CompletelyProcessed =>
        /\ DfTotal = Len(records)
        /\ Len(records) = AcceptedFrames
        /\ TcTotal = Cardinality(AdsbRecords)

\* a DF17 and a DF20 frame were processed: two records, df counters 2, tc
\* counters 1
C21_Witness ==
    /\ CompletelyProcessed
    /\ tally = [handed |-> 2, malformed |-> 0, unidentified |-> 0]
    /\ Len(records) = 2
    /\ DfTotal = 2
    /\ TcTotal = 1
    /\ Cardinality(AdsbRecords) = 1

PositionType(rec) == rec["position_type"].items[1].v

(***************************************************************************)
(* C22 as the specification states it: every record holds latitude,        *)
(* longitude and position_type all three or none of them; only records of  *)
(* DF17/18 frames of typecode 5 to 22 hold them; position_type is          *)
(* "surface" only for typecode 5 to 8, "airborne" only for typecode 9 to   *)
(* 22 and "with_ref" only in a session with a reference point.             *)
(***************************************************************************)
C22_PositionFieldsTogether ==
    \A i \in DOMAIN records :
        LET rec == records[i]
            m == MsgOf(rec)
        IN  /\ NoPositionKey(rec) \/ PosKeys \subseteq DOMAIN rec
            /\ ~NoPositionKey(rec) =>
                  m.df \in {17, 18} /\ m.tc >= 5 /\ m.tc <= 22
            /\ "position_type" \in DOMAIN rec =>
                  /\ PositionType(rec) = "surface" => m.tc >= 5 /\ m.tc <= 8
                  /\ PositionType(rec) = "airborne" => m.tc >= 9 /\ m.tc <= 22
                  /\ PositionType(rec) = "with_ref" => RefSupplied

\* the alarm handler raised right after rec['latitude'] was assigned, the
\* bare except clause caught it and the fallback decode failed: the record
\* appended holds latitude without longitude and position_type
C22_Witness ==
    /\ last.fate = "appended"
    /\ alarm = "swallowed"
    /\ last.intr = "position_latitude"
    /\ "latitude" \in DOMAIN LastRecord
    /\ "longitude" \notin DOMAIN LastRecord
    /\ "position_type" \notin DOMAIN LastRecord

Opposite(p) == IF p = "even" THEN "odd" ELSE "even"
\* the record holds a position computed from an even/odd pair
TwoMessagePosition(rec) ==
    /\ "position_type" \in DOMAIN rec
    /\ PositionType(rec) \in {"surface", "airborne"}

(***************************************************************************)
(* C23: when the record of a frame carries a surface or airborne position, *)
(* the cache after the frame holds the frame itself, with its timestamp,   *)
(* in the slot of its parity, and the opposite slot holds what it held     *)
(* before the frame: a frame of the same transponder id and the opposite   *)
(* parity, stamped less than 10 seconds from the record.                   *)
(***************************************************************************)
C23_PairHoldsOwnFrame ==
    [][(/\ HandledFrame
        /\ last'.fate = "appended"
        /\ TwoMessagePosition(records'[Len(records')])) =>
          LET m == Handed[1]
              own == SlotOf(m)
              opp == Opposite(own)
          IN  /\ HasSlot(position_cache', m.icao, own)
              /\ position_cache'[m.icao][own] = Handed
              /\ HasSlot(position_cache, m.icao, opp)
              /\ position_cache'[m.icao][opp] = position_cache[m.icao][opp]
              /\ position_cache[m.icao][opp][1].icao = m.icao
              /\ SlotOf(position_cache[m.icao][opp][1]) = opp
              /\ Distance(position_cache[m.icao][opp][2], Handed[2]) < 10]_vars

\* an even frame stamped 105 got an airborne position from the odd frame
\* stamped 100 that was in the cache
C23_Witness ==
    /\ Len(records) = 2
    /\ last.fate = "appended"
    /\ TwoMessagePosition(LastRecord)
    /\ PositionType(LastRecord) = "airborne"
    /\ MsgOf(LastRecord).oe = 0
    /\ MsgOf(records[1]).oe = 1
    /\ position_cache[MsgOf(LastRecord).icao]["even"] = last.frame
    /\ position_cache[MsgOf(LastRecord).icao]["even"][2] = 105
    /\ position_cache[MsgOf(LastRecord).icao]["odd"][2] = 100

\* the frame and timestamp held by slot sl belong to an appended record
SlotHasRecord(sl) ==
    \E i \in DOMAIN records :
        position_cache[sl[1]][sl[2]] = <<MsgOf(records[i]), TsOf(records[i])>>
\* the capture was stopped by TimeoutException reaching line 382
StoppedByTimeout == alarm = "fired" /\ phase \in {"stopped", "reported", "done"}

(***************************************************************************)
(* C24 as the specification states it: wherever the capture timeout fires, *)
(* the session handed to the statistics report and to the flush reflects   *)
(* whole frames only: the df counters sum to the number of records, the tc *)
(* counters to the number of DF17/18 records, and every cache slot holds   *)
(* the frame of an appended record.                                        *)
(***************************************************************************)
C24_TimeoutSeesWholeFrames ==
    StoppedByTimeout =>
        /\ DfTotal = Len(records)
        /\ TcTotal = Cardinality(AdsbRecords)
        /\ \A sl \in Slots(position_cache) : SlotHasRecord(sl)

\* the timeout fired after line 225 counted the second frame and before
\* line 301 appended its record; the statistics were reported with df
\* counters summing to 2 for one record
C24_Witness ==
    /\ StoppedByTimeout
    /\ phase = "reported"
    /\ last.fate = "interrupted"
    /\ stats.val = msg_counts
    /\ DfTotal = 2
    /\ Len(records) = 1

====
